---- MODULE Spec2Model ----
(***************************************************************************)
(* xweb (github.com/openziti/xweb/v2): the demux engine.                   *)
(*                                                                         *)
(* A DemuxFactory builds, from an ordered []ApiHandler, one http.Handler   *)
(* that routes each request to one ApiHandler.  Two factories exist:       *)
(* PathPrefixDemuxFactory (strings.HasPrefix on RootPath) and              *)
(* IsHandledDemuxFactory (the handler's own IsHandler predicate).  Both    *)
(* resolve the default ApiHandler with getDefault.                         *)
(*                                                                         *)
(* Strings that the code compares by prefix (URL paths, root paths) are    *)
(* sequences of one-character strings, so that HasPrefix is computed.      *)
(***************************************************************************)
EXTENDS Naturals, Sequences, FiniteSets

\* ------------------------------------------------------------------ bounds

\* The longest handler list handed to Build.
MaxHandlers == 3

\* The most APIs the first ServerConfig of a configuration declares.
MaxApis == 2

\* ------------------------------------------------------------- input values

\* Root paths a handler may declare: "/a", "/a/b", "/mock".
PathA    == <<"/", "a">>
PathAB   == <<"/", "a", "/", "b">>
PathMock == <<"/", "m", "o", "c", "k">>
RootPaths == {PathA, PathAB, PathMock}

\* mockHandler.RootPath(): "/mock-handler".
MockHandlerRootPath == <<"/", "m", "o", "c", "k", "-", "h", "a", "n", "d", "l", "e", "r">>

\* Request paths: "/a/x", "/a/b/x", "/ab", "/mock/anything", "/unknown".
ReqAX      == <<"/", "a", "/", "x">>
ReqABX     == <<"/", "a", "/", "b", "/", "x">>
ReqAb      == <<"/", "a", "b">>
ReqMockAny == <<"/", "m", "o", "c", "k", "/", "a", "n", "y", "t", "h", "i", "n", "g">>
ReqUnknown == <<"/", "u", "n", "k", "n", "o", "w", "n">>
Requests == {ReqAX, ReqABX, ReqAb, ReqMockAny, ReqUnknown}

\* What a handler says about being the default: it does not implement
\* DefaultApiHandler ("none"), or it does and IsDefault() is false or true.
Decls == {"none", "false", "true"}

Nil == [nil |-> TRUE]
\* No request yet: the empty path, which is no request path.
NoRequest == <<>>

\* The i-th handler's Binding(): unique within a Logical Server.
BindingName(i) == <<"api", i>>

\* What the predicate strategy's handlers answer IsHandler with: mockHandler's
\* never, always, and the requests under "/a" or under "/a/b".
Predicates ==
  {[pred |-> "never", rootPath |-> MockHandlerRootPath],
   [pred |-> "always", rootPath |-> MockHandlerRootPath],
   [pred |-> "underRoot", rootPath |-> PathA],
   [pred |-> "underRoot", rootPath |-> PathAB]}

\* The handlers a factory can be given as the i-th element of the list.  The
\* prefix strategy never calls IsHandler, so its handlers have mockHandler's;
\* the predicate strategy never compares root paths.
HandlersAt(f, i) ==
  IF f = "PathPrefix"
  THEN {[id |-> i, binding |-> BindingName(i), rootPath |-> r, decl |-> d, pred |-> "never"]
          : r \in RootPaths, d \in Decls}
  ELSE {[id |-> i, binding |-> BindingName(i), rootPath |-> p.rootPath, decl |-> d, pred |-> p.pred]
          : p \in Predicates, d \in Decls}

\* Every ordered handler list of length n (nil and empty slices are both the
\* empty sequence: len(handlers) == 0 is all the code asks of them).
RECURSIVE ListsOfLen(_, _)
ListsOfLen(f, n) ==
  IF n = 0 THEN {<<>>}
  ELSE {Append(hs, h) : hs \in ListsOfLen(f, n - 1), h \in HandlersAt(f, n)}

HandlerLists(f) == UNION {ListsOfLen(f, n) : n \in 0..MaxHandlers}

\* ------------------------------------------------------------------ helpers

\* strings.HasPrefix(s, prefix)
HasPrefix(s, prefix) ==
  /\ Len(prefix) <= Len(s)
  /\ SubSeq(s, 1, Len(prefix)) = prefix

\* handler.(DefaultApiHandler) succeeds and IsDefault() returns true
DeclaresDefault(h) == h.decl = "true"

\* handler.IsHandler(request)
IsHandler(h, path) ==
  CASE h.pred = "never"     -> FALSE
    [] h.pred = "always"    -> TRUE
    [] h.pred = "underRoot" -> HasPrefix(path, h.rootPath)

\* getDefault's loop: defaults = append(defaults, curHandler) for every
\* handler, in order, that declares itself the default.
RECURSIVE SelectDefaults(_)
SelectDefaults(s) ==
  IF s = <<>> THEN <<>>
  ELSE IF DeclaresDefault(Head(s))
       THEN <<Head(s)>> \o SelectDefaults(Tail(s))
       ELSE SelectDefaults(Tail(s))

\* A nil error, and the three errors Build can return.  names holds what the
\* message names, in the order the message names it.
NoError == [kind |-> "none", rootPath |-> <<>>, names |-> <<>>]
ErrNoHandlers == [kind |-> "no handlers provided", rootPath |-> <<>>, names |-> <<>>]
ErrTooManyDefaults(names) ==
  [kind |-> "too many default handlers found", rootPath |-> <<>>, names |-> names]
ErrDuplicateRootPath(rootPath, names) ==
  [kind |-> "duplicate root path", rootPath |-> rootPath, names |-> names]

\* fmt.Sprintf("[Binding: %s, Type: %T]", handler.Binding(), handler)
HandlerName(h) == [Binding |-> h.binding, Type |-> "*xweb.mockHandler"]

\* ---------------------------------------------------------------- variables

VARIABLES
  factory,     \* the DemuxFactory installed on the Instance
  handlers,    \* the []ApiHandler handed to Build
  pc,          \* "start", then "built" or "failed" once Build has returned
  dispatcher,  \* the DemuxHandler Build returned (Nil before, and on error)
  buildErr,    \* the error Build returned
  resolved,    \* what getDefault returned to Build: defaultApi and err
  providers,   \* the DefaultHttpHandlerProviderImpl of each component
  request,     \* the path of the request last handed to the dispatcher
  served,      \* the serving entry points invoked for that request, in order
  ctxHandler,  \* the HandlerContextKey value of the request the handler got
  response,    \* what was written to the http.ResponseWriter
  bindPoint,   \* the BindPointConfig of the http.Server the requests come in on
  OnHandlerPanic, \* Server.OnHandlerPanic: Nil or the hook
  exchange     \* the wrapped handler's side of the last request: the response
               \* header, the panic in flight, the hook's calls, the error log

pipelineVars == <<bindPoint, OnHandlerPanic, exchange>>

VARIABLES
  instancePc,   \* InstanceImpl.Start and Shutdown: the index of the server their
                \* range loop is at; past the last server they have returned
  startTask,    \* per server, the goroutine that runs Server.Start
  shutdownTask, \* per server, the goroutine that runs Server.Shutdown(ctx)
  httpServers   \* per server and bind point, the http.Server and its listener

lifecycleVars == <<instancePc, startTask, shutdownTask, httpServers>>

VARIABLES
  registry,       \* RegistryMap.factories: per binding the factory, Nil if none
  added,          \* the Add calls so far: the first factory per binding, the last call
  instance,       \* InstanceImpl: Config.ServerConfigs, servers, where Build is
  instanceConfig, \* InstanceConfig: identity, ServerConfigs, enabled
  loadCall        \* the last Parse, Validate or LoadConfig call and what it returned

compositionVars == <<registry, added, instance>>
configVars == <<instanceConfig, loadCall>>
assemblyVars == <<compositionVars, configVars>>

vars == <<factory, handlers, pc, dispatcher, buildErr, resolved, providers,
          request, served, ctxHandler, response, pipelineVars, lifecycleVars,
          assemblyVars>>

\* ------------------------------------------------- default-handler providers

\* handler404: 404 and an empty body.
Handler404 == [kind |-> "handler404"]

\* The components that embed a DefaultHttpHandlerProviderImpl.
Providers == {"instance", "server", "demuxHandler", "factory"}

\* An http.Handler a caller hands to SetDefaultHttpHandler of provider p; it
\* answers 200 with a body of its own.
CustomHandler(p) ==
  [kind |-> "custom", owner |-> p,
   response |-> [status |-> 200, body |-> <<"fallback", p>>]]

\* GetDefaultHttpHandler that hands on what the parent returned, nil included.
RECURSIVE GetDefaultHttpHandler_NoNotFound(_)
GetDefaultHttpHandler_NoNotFound(p) ==
  IF providers[p].HttpHandler = Nil /\ providers[p].Parent # "nil"
  THEN GetDefaultHttpHandler_NoNotFound(providers[p].Parent)
  ELSE providers[p].HttpHandler

RECURSIVE GetDefaultHttpHandler(_)
GetDefaultHttpHandler(p) ==
  IF providers[p].HttpHandler = Nil /\ providers[p].Parent # "nil"
  THEN LET handler == GetDefaultHttpHandler(providers[p].Parent)
       IN  IF handler = Nil THEN Handler404 ELSE handler
  ELSE providers[p].HttpHandler

\* --------------------------------------------------------------- getDefault

\* getDefault with a single declared default ignored: the last handler wins.
getDefault_IgnoresDeclared(hs) ==
  IF Len(hs) = 0
  THEN [handler |-> Nil, err |-> ErrNoHandlers]
  ELSE LET defaults == SelectDefaults(hs)
       IN  IF Len(defaults) > 1
           THEN [handler |-> Nil,
                 err |-> ErrTooManyDefaults(
                           [i \in 1..Len(defaults) |-> HandlerName(defaults[i])])]
           ELSE [handler |-> hs[Len(hs)], err |-> NoError]

\* getDefault falling back to handlers[0] instead of handlers[len(handlers)-1].
getDefault_FirstAsFallback(hs) ==
  IF Len(hs) = 0
  THEN [handler |-> Nil, err |-> ErrNoHandlers]
  ELSE LET defaults == SelectDefaults(hs)
       IN  IF Len(defaults) = 0
           THEN [handler |-> hs[1], err |-> NoError]
           ELSE IF Len(defaults) > 1
                THEN [handler |-> Nil,
                      err |-> ErrTooManyDefaults(
                                [i \in 1..Len(defaults) |-> HandlerName(defaults[i])])]
                ELSE [handler |-> defaults[1], err |-> NoError]

\* getDefault naming only the previous and the new default, as the warning of
\* the first demux did.
getDefault_NamesTwo(hs) ==
  IF Len(hs) = 0
  THEN [handler |-> Nil, err |-> ErrNoHandlers]
  ELSE LET defaults == SelectDefaults(hs)
       IN  IF Len(defaults) = 0
           THEN [handler |-> hs[Len(hs)], err |-> NoError]
           ELSE IF Len(defaults) > 1
                THEN [handler |-> Nil,
                      err |-> ErrTooManyDefaults(
                                <<HandlerName(defaults[1]), HandlerName(defaults[2])>>)]
                ELSE [handler |-> defaults[1], err |-> NoError]

\* getDefault without the len(handlers) == 0 check: a nil default, no error.
getDefault_NoEmptyCheck(hs) ==
  LET defaults == SelectDefaults(hs)
  IN  IF Len(defaults) = 0
      THEN [handler |-> IF Len(hs) = 0 THEN Nil ELSE hs[Len(hs)], err |-> NoError]
      ELSE IF Len(defaults) > 1
           THEN [handler |-> Nil,
                 err |-> ErrTooManyDefaults(
                           [i \in 1..Len(defaults) |-> HandlerName(defaults[i])])]
           ELSE [handler |-> defaults[1], err |-> NoError]

getDefault(hs) ==
  IF Len(hs) = 0
  THEN [handler |-> Nil, err |-> ErrNoHandlers]
  ELSE LET defaults == SelectDefaults(hs)
       IN  IF Len(defaults) = 0
           THEN [handler |-> hs[Len(hs)], err |-> NoError]
           ELSE IF Len(defaults) > 1
                THEN [handler |-> Nil,
                      err |-> ErrTooManyDefaults(
                                [i \in 1..Len(defaults) |-> HandlerName(defaults[i])])]
                ELSE [handler |-> defaults[1], err |-> NoError]

\* -------------------------------------------------------------------- Build

\* The loop over handlerMap with the new handler's binding printed twice
\* (existing.Binding() mistyped as handler.Binding()).
RECURSIVE ScanRootPaths_NamesNewTwice(_, _, _)
ScanRootPaths_NamesNewTwice(hs, i, handlerMap) ==
  IF i > Len(hs) THEN NoError
  ELSE LET handler == hs[i]
       IN  IF handler.rootPath \in DOMAIN handlerMap
           THEN ErrDuplicateRootPath(handler.rootPath,
                  <<handler.binding, handler.binding>>)
           ELSE ScanRootPaths_NamesNewTwice(hs, i + 1,
                  [r \in DOMAIN handlerMap \cup {handler.rootPath} |->
                     IF r = handler.rootPath THEN handler ELSE handlerMap[r]])

\* PathPrefixDemuxFactory.Build's loop over handlerMap, from handlers[i] on:
\* the error of the first handler whose root path is already in the map.
RECURSIVE ScanRootPaths(_, _, _)
ScanRootPaths(hs, i, handlerMap) ==
  IF i > Len(hs) THEN NoError
  ELSE LET handler == hs[i]
       IN  IF handler.rootPath \in DOMAIN handlerMap
           THEN ErrDuplicateRootPath(handler.rootPath,
                  <<handler.binding, handlerMap[handler.rootPath].binding>>)
           ELSE ScanRootPaths(hs, i + 1,
                  [r \in DOMAIN handlerMap \cup {handler.rootPath} |->
                     IF r = handler.rootPath THEN handler ELSE handlerMap[r]])

\* The DemuxHandlerImpl a Build returns: its closure captures the handlers and
\* the resolved default; it reads the factory's default http handler.
DemuxHandlerImpl(strategy, hs, defaultApi) ==
  [strategy |-> strategy, handlers |-> hs, defaultApi |-> defaultApi]

PathPrefixDemuxFactory_Build(hs) ==
  LET d == getDefault(hs)
  IN  IF d.err # NoError
      THEN [dispatcher |-> Nil, err |-> d.err]
      ELSE LET dup == ScanRootPaths(hs, 1, <<>>)
           IN  IF dup # NoError
               THEN [dispatcher |-> Nil, err |-> dup]
               ELSE [dispatcher |-> DemuxHandlerImpl("PathPrefix", hs, d.handler),
                     err |-> NoError]

\* IsHandledDemuxFactory.Build without "if err != nil { return nil, err }".
IsHandledDemuxFactory_Build_IgnoresErr(hs) ==
  LET d == getDefault(hs)
  IN  [dispatcher |-> DemuxHandlerImpl("IsHandled", hs, d.handler), err |-> NoError]

IsHandledDemuxFactory_Build(hs) ==
  LET d == getDefault(hs)
  IN  IF d.err # NoError
      THEN [dispatcher |-> Nil, err |-> d.err]
      ELSE [dispatcher |-> DemuxHandlerImpl("IsHandled", hs, d.handler),
            err |-> NoError]

\* ---------------------------------------------------------- the first demux

\* for _, handler := range handlers { if newDefaultApi.IsDefault() {
\* defaultApi = handler } }: the last handler that declares itself default,
\* nil when none does; more than one is a warning, not an error.
FirstDemux_defaultApi(hs) ==
  LET declared == SelectDefaults(hs)
  IN  IF declared = <<>> THEN Nil ELSE declared[Len(declared)]

FirstDemux_PathPrefixDemuxFactory_Build(hs) ==
  LET dup == ScanRootPaths(hs, 1, <<>>)
  IN  IF dup # NoError
      THEN [dispatcher |-> Nil, err |-> dup]
      ELSE [dispatcher |-> DemuxHandlerImpl("PathPrefix", hs, FirstDemux_defaultApi(hs)),
            err |-> NoError]

FirstDemux_IsHandledDemuxFactory_Build(hs) ==
  [dispatcher |-> DemuxHandlerImpl("IsHandled", hs, FirstDemux_defaultApi(hs)),
   err |-> NoError]

\* ----------------------------------------------------------------- ServeHTTP

\* mockHandler.ServeHTTP: 200 and the binding as the body.  What it is invoked
\* with is recorded: the entry point, and the request context's
\* HandlerContextKey value.
ServeApiHandler(h) ==
  [served     |-> <<[kind |-> "ApiHandler", id |-> h.id]>>,
   ctxHandler |-> h,
   response   |-> [status |-> 200, body |-> h.binding]]

\* A default http.Handler invoked with the request as it came.
ServeDefaultHttpHandler(h) ==
  [served     |-> <<[kind |-> "defaultHttpHandler", id |-> 0]>>,
   ctxHandler |-> Nil,
   response   |-> IF h = Handler404 THEN [status |-> 404, body |-> <<>>]
                  ELSE h.response]

\* writer.WriteHeader(http.StatusNotFound); writer.Write([]byte{})
WriteNotFound ==
  [served     |-> <<[kind |-> "notFound", id |-> 0]>>,
   ctxHandler |-> Nil,
   response   |-> [status |-> 404, body |-> <<>>]]

\* The prefix loop choosing the longest matching root path instead of the
\* first (the first of the longest on a tie).
PathPrefixLoop_LongestPrefix(hs, i, path) ==
  LET m == {k \in i..Len(hs) : HasPrefix(path, hs[k].rootPath)}
  IN  IF m = {} THEN 0
      ELSE CHOOSE k \in m :
             \A j \in m : \/ Len(hs[j].rootPath) < Len(hs[k].rootPath)
                           \/ (Len(hs[j].rootPath) = Len(hs[k].rootPath) /\ k <= j)

\* The predicate loop without its return: the last match serves.
IsHandledLoop_LastMatch(hs, i, path) ==
  LET m == {k \in i..Len(hs) : IsHandler(hs[k], path)}
  IN  IF m = {} THEN 0 ELSE CHOOSE k \in m : \A j \in m : j <= k

\* for _, handler := range handlers { if strings.HasPrefix(...) {...; return} }
\* from handlers[i] on: the index of the handler served, 0 when the loop ends.
RECURSIVE PathPrefixLoop(_, _, _)
PathPrefixLoop(hs, i, path) ==
  IF i > Len(hs) THEN 0
  ELSE IF HasPrefix(path, hs[i].rootPath) THEN i
       ELSE PathPrefixLoop(hs, i + 1, path)

\* for _, handler := range handlers { if handler.IsHandler(request) {...; return} }
RECURSIVE IsHandledLoop(_, _, _)
IsHandledLoop(hs, i, path) ==
  IF i > Len(hs) THEN 0
  ELSE IF IsHandler(hs[i], path) THEN i
       ELSE IsHandledLoop(hs, i + 1, path)

\* The prefix closure with the last handler, not the resolved default, serving
\* an unmatched request.
PathPrefix_ServeHTTP_LastServesUnmatched(d, path) ==
  LET i == PathPrefixLoop(d.handlers, 1, path)
  IN  IF i # 0 THEN ServeApiHandler(d.handlers[i])
      ELSE ServeApiHandler(d.handlers[Len(d.handlers)])

\* The prefix closure without the return after a matched handler has served:
\* the default handler serves the request too.
PathPrefix_ServeHTTP_NoReturn(d, path) ==
  LET i == PathPrefixLoop(d.handlers, 1, path)
      m == ServeApiHandler(d.handlers[i])
      f == ServeApiHandler(d.defaultApi)
  IN  IF i # 0
      THEN [served |-> m.served \o f.served, ctxHandler |-> f.ctxHandler,
            response |-> m.response]
      ELSE f

\* The closure PathPrefixDemuxFactory.Build returns.
PathPrefix_ServeHTTP(d, path) ==
  LET i == PathPrefixLoop(d.handlers, 1, path)
  IN  IF i # 0 THEN ServeApiHandler(d.handlers[i])
      ELSE IF d.defaultApi # Nil THEN ServeApiHandler(d.defaultApi)
      ELSE LET defaultHttpHandler == GetDefaultHttpHandler("factory")
           IN  IF defaultHttpHandler # Nil
               THEN ServeDefaultHttpHandler(defaultHttpHandler)
               ELSE WriteNotFound

\* The predicate closure of the first demux, whose defaultApi is nil unless a
\* handler declares itself default.
IsHandled_ServeHTTP_DeclaredDefaultOnly(d, path) ==
  LET i == IsHandledLoop(d.handlers, 1, path)
  IN  IF i # 0 THEN ServeApiHandler(d.handlers[i])
      ELSE IF DeclaresDefault(d.defaultApi) THEN ServeApiHandler(d.defaultApi)
      ELSE LET defaultHttpHandler == GetDefaultHttpHandler("factory")
           IN  IF defaultHttpHandler # Nil
               THEN ServeDefaultHttpHandler(defaultHttpHandler)
               ELSE WriteNotFound

\* The closure IsHandledDemuxFactory.Build returns.
IsHandled_ServeHTTP(d, path) ==
  LET i == IsHandledLoop(d.handlers, 1, path)
  IN  IF i # 0 THEN ServeApiHandler(d.handlers[i])
      ELSE IF d.defaultApi # Nil THEN ServeApiHandler(d.defaultApi)
      ELSE LET defaultHttpHandler == GetDefaultHttpHandler("factory")
           IN  IF defaultHttpHandler # Nil
               THEN ServeDefaultHttpHandler(defaultHttpHandler)
               ELSE WriteNotFound

\* DemuxHandlerImpl.ServeHTTP: d.Handler.ServeHTTP(writer, request)
DemuxHandlerImpl_ServeHTTP(d, path) ==
  IF d.strategy = "PathPrefix"
  THEN PathPrefix_ServeHTTP(d, path)
  ELSE IsHandled_ServeHTTP(d, path)

\* A closure that keeps the handler it served last at the head of its list.
DemuxHandlerImpl_Captured_MovesToFront(d, path) ==
  LET hs == d.handlers
      m == {i \in 1..Len(hs) : IF d.strategy = "PathPrefix"
                                 THEN HasPrefix(path, hs[i].rootPath)
                                 ELSE IsHandler(hs[i], path)}
  IN  IF m = {} THEN d
      ELSE LET i == CHOOSE j \in m : \A k \in m : k <= j
               Other(h) == h.id # hs[i].id
           IN  [d EXCEPT !.handlers = <<hs[i]>> \o SelectSeq(hs, Other)]

\* The variables the closure captured (handlers, defaultApi), after it has
\* served a request: it ranges over them and assigns to none.
DemuxHandlerImpl_Captured(d, path) == d

\* ------------------------------------------------------------------ context

\* The dynamic type of the value the closure stores under HandlerContextKey:
\* the type of the ApiHandler's implementation.  *ApiHandler, a pointer to the
\* interface, has no methods and so is no ApiHandler's dynamic type.
DynamicType(val) == HandlerName(val).Type

\* HandlerFromRequestContext: the value under HandlerContextKey when it is
\* there and val.(*ApiHandler) holds, else nil.
HandlerFromRequestContext(val) ==
  IF val # Nil
  THEN IF DynamicType(val) = "*xweb.ApiHandler" THEN val ELSE Nil
  ELSE Nil

\* ----------------------------------------------------------- wrapped handler

ZitiCtrlAddressHeader == "ziti-ctrl-address"

\* BindPointConfig.NewAddress: empty, or <ip/host>:<port>.
NewAddresses == {<<>>, <<"new.host", ":", "1280">>}

\* The value a panicking handler panics with.
PanicVal == [panic |-> "handler"]

\* The hook a caller assigns to Server.OnHandlerPanic.
Hook == [kind |-> "hook"]

\* Before any request: an empty header, no panic, nothing called or logged.
\* afterPanic: a handler panicked on an earlier request of this http.Server.
NoExchange ==
  [header |-> {}, panic |-> Nil, hook |-> <<>>, logged |-> FALSE,
   entered |-> <<>>, fault |-> FALSE, afterPanic |-> FALSE, headerSeen |-> {},
   served |-> <<>>, ctxHandler |-> Nil, response |-> [status |-> 0, body |-> <<>>]]

\* http.Header.Set(name, value)
HeaderSet(header, name, value) ==
  {e \in header : e[1] # name} \cup {<<name, value>>}

\* demuxHandler.ServeHTTP(writer, request) with the writer and request as the
\* wrappers hand them on; a handler that panics does so before it writes.
\* headerSeen: the writer's header as the dispatcher found it.
ServeDemuxHandler(x, path) ==
  LET r == DemuxHandlerImpl_ServeHTTP(dispatcher, path)
  IN  [x EXCEPT !.entered = Append(@, "demuxHandler"),
                !.headerSeen = x.header,
                !.served = r.served,
                !.ctxHandler = r.ctxHandler,
                !.response = IF x.fault THEN @ ELSE r.response,
                !.panic = IF x.fault THEN PanicVal ELSE @]

\* wrapSetCtrlAddressHeader without the test of point.NewAddress.
wrapSetCtrlAddressHeader_Always(point, x, path) ==
  ServeDemuxHandler(
    [x EXCEPT !.entered = Append(@, "wrapSetCtrlAddressHeader"),
              !.header = HeaderSet(@, ZitiCtrlAddressHeader,
                                   <<"https://">> \o point.NewAddress)],
    path)

wrapSetCtrlAddressHeader(point, x, path) ==
  ServeDemuxHandler(
    [x EXCEPT !.entered = Append(@, "wrapSetCtrlAddressHeader"),
              !.header = IF point.NewAddress # <<>>
                         THEN HeaderSet(@, ZitiCtrlAddressHeader,
                                        <<"https://">> \o point.NewAddress)
                         ELSE @],
    path)

\* wrapPanicRecovery without the deferred recover.
wrapPanicRecovery_NoRecover(point, x, path) ==
  wrapSetCtrlAddressHeader(point,
    [x EXCEPT !.entered = Append(@, "wrapPanicRecovery")], path)

\* server.OnHandlerPanic(writer, request, panicVal): the call, with the
\* writer as the wrapped handler left it.
HookCall(y, path) ==
  [writer |-> [header |-> y.header, response |-> y.response],
   request |-> path, panicVal |-> y.panic]

\* wrapPanicRecovery without the return after the hook: the panic is logged
\* as well.
wrapPanicRecovery_HookAndLog(point, x, path) ==
  LET y == wrapSetCtrlAddressHeader(point,
             [x EXCEPT !.entered = Append(@, "wrapPanicRecovery")], path)
  IN  IF y.panic # Nil
      THEN IF OnHandlerPanic # Nil
           THEN [y EXCEPT !.panic = Nil, !.logged = TRUE,
                          !.hook = Append(@, HookCall(y, path))]
           ELSE [y EXCEPT !.panic = Nil, !.logged = TRUE]
      ELSE y

\* The deferred function runs when the wrapped handler returns or panics:
\* recover() ends the panic; the hook is called if there is one, else the
\* panic is logged with the stack.
wrapPanicRecovery(point, x, path) ==
  LET y == wrapSetCtrlAddressHeader(point,
             [x EXCEPT !.entered = Append(@, "wrapPanicRecovery")], path)
  IN  IF y.panic # Nil
      THEN IF OnHandlerPanic # Nil
           THEN [y EXCEPT !.panic = Nil,
                          !.hook = Append(@, HookCall(y, path))]
           ELSE [y EXCEPT !.panic = Nil, !.logged = TRUE]
      ELSE y

\* middleware.NewCompressionHandler(handler): hands the request on; the
\* encoding of the body is not part of this model.
CompressionHandler(point, x, path) ==
  wrapPanicRecovery(point,
    [x EXCEPT !.entered = Append(@, "CompressionHandler")], path)

\* wrapHandler with the panic recovery innermost: header and compression
\* run outside of it.
wrapHandler_RecoveryInnermost(point, x, path) ==
  LET a == [x EXCEPT !.entered = Append(@, "CompressionHandler")]
      b == [a EXCEPT !.entered = Append(@, "wrapSetCtrlAddressHeader"),
                     !.header = IF point.NewAddress # <<>>
                                THEN HeaderSet(@, ZitiCtrlAddressHeader,
                                               <<"https://">> \o point.NewAddress)
                                ELSE @]
      c == ServeDemuxHandler(
             [b EXCEPT !.entered = Append(@, "wrapPanicRecovery")], path)
  IN  IF c.panic # Nil THEN [c EXCEPT !.panic = Nil, !.logged = TRUE] ELSE c

\* Server.wrapHandler: header (innermost), panic recovery, compression.
wrapHandler(point, x, path) == CompressionHandler(point, x, path)

\* ---------------------------------------------------------------- lifecycle

\* The servers InstanceImpl.Build has built, one per ServerConfig, and the
\* bind points of each: the first server has several, the others have one.
MaxServers == 2
MaxBindPoints == 2
Servers == 1..MaxServers
NumBindPoints(s) == IF s = 1 THEN MaxBindPoints ELSE 1
BindPoints(s) == 1..NumBindPoints(s)

\* context.WithTimeout(context.Background(), time.Second*15)
ShutdownTimeout == 15

\* s := server: the server the goroutine of iteration i calls Start on.
StartTarget_LoopVariable(i) == MaxServers
StartTarget(i) == i

\* localServer := server: the server the goroutine of iteration i shuts down.
ShutdownTarget_LoopVariable(i) == MaxServers
ShutdownTarget(i) == i

\* Server.Shutdown's loop with a return on the first error.
ShutdownNext_ReturnOnError(k, err) ==
  IF err # "nil" THEN MaxBindPoints + 1 ELSE k + 1

\* _ = localServer.Shutdown(ctx): the error is dropped, the loop goes on.
ShutdownNext(k, err) == k + 1

\* Server.Start's loop after the serve loop of bind point k has ended with
\* http.ErrServerClosed: the next bind point, or return nil.
StartAfter(s, task, k) ==
  IF k < NumBindPoints(s)
  THEN [task EXCEPT !.at = "listen", !.k = k + 1]
  ELSE [task EXCEPT !.at = "returned", !.k = k + 1]

\* Server.Shutdown's loop after localServer.Shutdown(ctx) of bind point k
\* has returned err (errs: what each call returned, which the code drops).
ShutdownAfter(s, task, k, err) ==
  LET next == ShutdownNext(k, err)
  IN  IF next <= NumBindPoints(s)
      THEN [task EXCEPT !.at = "shutdown", !.k = next, !.errs = Append(@, err)]
      ELSE [task EXCEPT !.at = "returned", !.k = next, !.errs = Append(@, err)]

\* Serve's srv.trackListener(&l, true): false once the http.Server has been
\* shut down, and Serve returns http.ErrServerClosed without accepting.
TrackListener_Always(h) == TRUE
TrackListener(h) == ~h.inShutdown

\* Server.Start's loop with the test of Serve's error left out.
AfterServe_IgnoresErr(s, task, k, serveErr) == StartAfter(s, task, k)

\* if !errors.Is(err, http.ErrServerClosed) { return fmt.Errorf(...) }
AfterServe(s, task, k, serveErr) ==
  IF serveErr THEN [task EXCEPT !.at = "returned", !.err = "serve"]
  ELSE StartAfter(s, task, k)

\* Built servers: nothing started, nothing listening.  Per http.Server:
\* the listener, whether Shutdown was called, how the serve loop ended, and
\* whether Shutdown was called before the serve loop began (early).
InitServers ==
  /\ instancePc = [Start |-> 1, Shutdown |-> 1]
  /\ startTask = [s \in Servers |->
                    [launched |-> 0, at |-> "idle", k |-> 0, err |-> "nil"]]
  /\ shutdownTask = [s \in Servers |->
                       [signalled |-> 0, at |-> "idle", k |-> 0, ctx |-> Nil, errs |-> <<>>]]
  /\ httpServers = [s \in Servers |-> [k \in BindPoints(s) |->
                      [listener |-> "none", inShutdown |-> FALSE,
                       outcome |-> "none", early |-> FALSE]]]

\* ----------------------------------------------------------------- registry

\* The bindings API factories are registered under and ServerConfigs declare.
Bindings == {BindingName(1), BindingName(2)}

\* An ApiHandlerFactory: its Binding() and what its New returns: a handler, a
\* handler that declares itself the default, or an error.
Factories == [binding : Bindings, New : {"handler", "defaultHandler", "error"}]

\* NewRegistryMap(): an empty map.
NewRegistryMap == [b \in Bindings |-> Nil]

\* RegistryMap.Get: registry.factories[binding], nil for a binding with no entry.
RegistryMap_Get(reg, binding) == reg[binding]

\* RegistryMap.Add that stores the factory also when it reports the duplicate.
RegistryMap_Add_Overwrites(reg, f) ==
  [registry |-> [reg EXCEPT ![f.binding] = f],
   err |-> IF reg[f.binding] # Nil THEN "already registered" ELSE "nil"]

\* RegistryMap.Add
RegistryMap_Add(reg, f) ==
  IF reg[f.binding] # Nil
  THEN [registry |-> reg, err |-> "already registered"]
  ELSE [registry |-> [reg EXCEPT ![f.binding] = f], err |-> "nil"]

\* -------------------------------------------------------------- composition

\* The APIs lists a ServerConfig may declare: bindings in order, repeats
\* included.
RECURSIVE ApiListsOfLen(_)
ApiListsOfLen(n) ==
  IF n = 0 THEN {<<>>}
  ELSE {Append(a, b) : a \in ApiListsOfLen(n - 1), b \in Bindings}

ApiLists == UNION {ApiListsOfLen(n) : n \in 0..MaxApis}

\* Config.ServerConfigs, each ServerConfig by its APIs: the first declares
\* any list, the others the first binding.
ServerConfigLists ==
  {[s \in 1..n |-> IF s = 1 THEN a ELSE <<BindingName(1)>>]
     : n \in 1..MaxServers, a \in ApiLists}

\* The handler apiFactory.New returns as the j-th of a server; its root path
\* is its binding's.
ApiHandlerOf(f, j) ==
  [id |-> j, binding |-> f.binding,
   rootPath |-> IF f.binding = BindingName(1) THEN PathA ELSE PathAB,
   decl |-> IF f.New = "defaultHandler" THEN "true" ELSE "none",
   pred |-> "underRoot"]

\* NewServer's loop over serverConfig.APIs that leaves out an API it cannot
\* resolve.
RECURSIVE ResolveHandlers_SkipsUnresolved(_, _, _, _)
ResolveHandlers_SkipsUnresolved(apis, reg, j, hs) ==
  IF j > Len(apis) THEN [handlers |-> hs, fatal |-> "none"]
  ELSE LET apiFactory == RegistryMap_Get(reg, apis[j])
       IN  IF apiFactory = Nil \/ apiFactory.New = "error"
           THEN ResolveHandlers_SkipsUnresolved(apis, reg, j + 1, hs)
           ELSE ResolveHandlers_SkipsUnresolved(apis, reg, j + 1,
                  Append(hs, ApiHandlerOf(apiFactory, Len(hs) + 1)))

\* NewServer's loop over serverConfig.APIs from the j-th on, hs the handlers
\* so far: Fatalf, which ends the process, when the registry has no factory
\* for the binding or the factory's New returns an error.
RECURSIVE ResolveHandlers(_, _, _, _)
ResolveHandlers(apis, reg, j, hs) ==
  IF j > Len(apis) THEN [handlers |-> hs, fatal |-> "none"]
  ELSE LET apiFactory == RegistryMap_Get(reg, apis[j])
       IN  IF apiFactory = Nil
           THEN [handlers |-> hs, fatal |-> "no associated factory registered"]
           ELSE IF apiFactory.New = "error"
           THEN [handlers |-> hs, fatal |-> "encountered error building handler"]
           ELSE ResolveHandlers(apis, reg, j + 1,
                  Append(hs, ApiHandlerOf(apiFactory, Len(hs) + 1)))

\* NewServer(instance, serverConfig): the handlers, then the DemuxHandler
\* from the instance's DemuxFactory; demuxInput is the list Build was called
\* with, none when it was not called.
NewServer(f, apis, reg) ==
  LET r == ResolveHandlers(apis, reg, 1, <<>>)
  IN  IF r.fatal # "none"
      THEN [server |-> Nil, err |-> NoError, fatal |-> r.fatal, demuxInput |-> <<>>]
      ELSE LET b == IF f = "PathPrefix"
                    THEN PathPrefixDemuxFactory_Build(r.handlers)
                    ELSE IsHandledDemuxFactory_Build(r.handlers)
           IN  [server |-> IF b.err # NoError THEN Nil
                           ELSE [handlers |-> r.handlers,
                                 demuxHandler |-> b.dispatcher,
                                 ApiBindingList |-> apis],
                err |-> b.err, fatal |-> "none", demuxInput |-> <<r.handlers>>]

\* An InstanceImpl with its configuration loaded, Build not yet called.
\* demuxInputs: the lists the DemuxFactory's Build has been called with;
\* startedOn: i.servers as Start found it, once Start has been called.
NewInstance(serverConfigs) ==
  [ServerConfigs |-> serverConfigs, servers |-> <<>>, next |-> 1, at |-> "new",
   fatal |-> "none", demuxInputs |-> <<>>, startedOn |-> <<>>]

\* Instance.Build's loop that logs a NewServer error and goes on.
InstanceImpl_Build_LogsAndContinues(inst, r) ==
  LET last == inst.next = Len(inst.ServerConfigs)
      seen == [inst EXCEPT !.demuxInputs = @ \o r.demuxInput]
  IN  IF r.fatal # "none"
      THEN [seen EXCEPT !.at = "exited", !.fatal = r.fatal]
      ELSE [seen EXCEPT !.servers = IF r.err # NoError THEN @ ELSE Append(@, r.server),
                        !.next = @ + 1,
                        !.at = IF last THEN "built" ELSE "building"]

\* One iteration of Instance.Build's loop, r being what NewServer did:
\* NewServer's own Fatalf or Build's Fatalf on its error end the process,
\* else the server is appended; after the last ServerConfig Build returns.
InstanceImpl_Build(inst, r) ==
  LET last == inst.next = Len(inst.ServerConfigs)
      seen == [inst EXCEPT !.demuxInputs = @ \o r.demuxInput]
  IN  IF r.fatal # "none"
      THEN [seen EXCEPT !.at = "exited", !.fatal = r.fatal]
      ELSE IF r.err # NoError
      THEN [seen EXCEPT !.at = "exited", !.fatal = "error starting server"]
      ELSE [seen EXCEPT !.servers = Append(@, r.server),
                        !.next = @ + 1,
                        !.at = IF last THEN "built" ELSE "building"]

\* ------------------------------------------------------------ configuration

\* What a configuration map holds in the identity section: nothing, an
\* identity that parses but cannot be loaded, or one that can.
IdentitySections == {"missing", "unloadable", "loadable"}

\* What it holds per entry of the web section: one that does not parse, or a
\* ServerConfig that is invalid, whose identity is not valid for a bind
\* point's address, one of whose API factories rejects the configuration,
\* or that passes.
ParsedServerConfigs == {"invalid", "identityNotValidFor", "apiInvalid", "valid"}
ServerSections == {"unparsable"} \cup ParsedServerConfigs

RECURSIVE SectionListsOfLen(_)
SectionListsOfLen(n) ==
  IF n = 0 THEN {<<>>}
  ELSE {Append(l, k) : l \in SectionListsOfLen(n - 1), k \in ServerSections}

ConfigMaps ==
  [identity : IdentitySections,
   servers : UNION {SectionListsOfLen(n) : n \in 0..MaxServers}]

\* An InstanceConfig as NewInstance makes it: the default identity given
\* ("given") or nil, both sections named, nothing parsed.
NewInstanceConfig(identity) ==
  [DefaultIdentity |-> identity, defaultIdentityConfig |-> "nil",
   ServerConfigs |-> <<>>, enabled |-> FALSE]

\* Parse's loop over the web section from the i-th entry on: each
\* ServerConfig that parses is appended, the first that does not returns.
RECURSIVE ParseServerConfigs(_, _, _)
ParseServerConfigs(c, sections, i) ==
  IF i > Len(sections) THEN [config |-> c, err |-> "nil"]
  ELSE IF sections[i] = "unparsable"
  THEN [config |-> c, err |-> "error parsing web configuration"]
  ELSE ParseServerConfigs([c EXCEPT !.ServerConfigs = Append(@, sections[i])],
                          sections, i + 1)

\* InstanceConfig.Parse(configMap)
InstanceConfig_Parse(c, m) ==
  IF c.DefaultIdentity = "nil" /\ m.identity = "missing"
  THEN [config |-> c, err |-> "root identity section must be defined"]
  ELSE ParseServerConfigs(
         [c EXCEPT !.defaultIdentityConfig =
            IF c.DefaultIdentity = "nil" THEN m.identity ELSE "loadable"],
         m.servers, 1)

\* The ServerConfigs of a configuration that are of a kind.
ServerConfigsOf(c, kind) == {i \in 1..Len(c.ServerConfigs) : c.ServerConfigs[i] = kind}

\* InstanceConfig.Validate without "if len(errs) > 0 { return errors.Join(errs...) }".
InstanceConfig_Validate_DropsIdentityErrs(c) ==
  IF c.DefaultIdentity = "nil" /\ c.defaultIdentityConfig # "loadable"
  THEN [config |-> c, err |-> "could not load default identity"]
  ELSE LET d == [c EXCEPT !.DefaultIdentity = IF @ = "nil" THEN "loaded" ELSE @]
       IN  IF ServerConfigsOf(d, "invalid") # {}
           THEN [config |-> d, err |-> "could not validate server"]
           ELSE IF ServerConfigsOf(d, "apiInvalid") # {}
           THEN [config |-> d, err |-> "error validating ApiConfig binding"]
           ELSE [config |-> [d EXCEPT !.enabled = TRUE], err |-> "nil"]

\* InstanceConfig.Validate(registry), on a configuration that Parse has
\* given an identity configuration: load the default identity if there is
\* none, return on the first invalid ServerConfig, then on the joined
\* ValidFor errors, then on the first API factory whose Validate fails;
\* enabled only after validation passes.
InstanceConfig_Validate(c) ==
  IF c.DefaultIdentity = "nil" /\ c.defaultIdentityConfig # "loadable"
  THEN [config |-> c, err |-> "could not load default identity"]
  ELSE LET d == [c EXCEPT !.DefaultIdentity = IF @ = "nil" THEN "loaded" ELSE @]
       IN  IF ServerConfigsOf(d, "invalid") # {}
           THEN [config |-> d, err |-> "could not validate server"]
           ELSE IF ServerConfigsOf(d, "identityNotValidFor") # {}
           THEN [config |-> d, err |-> "identity is not valid for address"]
           ELSE IF ServerConfigsOf(d, "apiInvalid") # {}
           THEN [config |-> d, err |-> "error validating ApiConfig binding"]
           ELSE [config |-> [d EXCEPT !.enabled = TRUE], err |-> "nil"]

\* InstanceImpl.LoadConfig(cfgmap): Parse, and Validate only if Parse
\* returned no error; checked is the configuration Validate was called on.
InstanceImpl_LoadConfig(c, m) ==
  LET parsed == InstanceConfig_Parse(c, m)
  IN  IF parsed.err # "nil"
      THEN [config |-> parsed.config, err |-> parsed.err, checked |-> <<>>]
      ELSE LET validated == InstanceConfig_Validate(parsed.config)
           IN  [config |-> validated.config, err |-> validated.err,
                checked |-> <<parsed.config>>]

\* No call yet.
NoCall == [op |-> "none", err |-> "nil", checked |-> <<>>]

\* No Add yet.
NoAdds == [first |-> [b \in Bindings |-> Nil],
           last |-> [factory |-> Nil, err |-> "nil", again |-> FALSE]]

\* An empty registry, an instance and a configuration nothing was done with.
InitAssembly ==
  /\ registry = NewRegistryMap
  /\ added = NoAdds
  /\ instance = NewInstance(<<>>)
  /\ instanceConfig = NewInstanceConfig("nil")
  /\ loadCall = NoCall

\* ------------------------------------------------------------ state machine

\* NewInstance installs an IsHandledDemuxFactory; InstanceImpl.DemuxFactory is
\* an exported field, so a PathPrefixDemuxFactory can be installed instead.
\* NewServer links the providers: server -> instance, demuxHandler -> server.
\* The factory is a provider of its own, with no parent and no handler.
InitDemux ==
  /\ factory \in {"PathPrefix", "IsHandled"}
  /\ handlers \in HandlerLists(factory)
  /\ pc = "start"
  /\ dispatcher = Nil
  /\ buildErr = NoError
  /\ resolved = [handler |-> Nil, err |-> NoError]
  /\ providers = [instance     |-> [HttpHandler |-> Nil, Parent |-> "nil"],
                  server       |-> [HttpHandler |-> Nil, Parent |-> "instance"],
                  demuxHandler |-> [HttpHandler |-> Nil, Parent |-> "server"],
                  factory      |-> [HttpHandler |-> Nil, Parent |-> "nil"]]
  /\ request = NoRequest
  /\ served = <<>>
  /\ ctxHandler = Nil
  /\ response = [status |-> 0, body |-> <<>>]

\* A bind point without a replacement address, no OnHandlerPanic hook.
Init ==
  /\ InitDemux
  /\ bindPoint = [NewAddress |-> <<>>]
  /\ OnHandlerPanic = Nil
  /\ exchange = NoExchange
  /\ InitServers
  /\ InitAssembly

\* demuxHandler, err := instance.GetDemuxFactory().Build(handlers)
Build ==
  /\ pc = "start"
  /\ LET r == IF factory = "PathPrefix"
              THEN PathPrefixDemuxFactory_Build(handlers)
              ELSE IsHandledDemuxFactory_Build(handlers)
     IN  /\ dispatcher' = r.dispatcher
         /\ buildErr' = r.err
         /\ resolved' = getDefault(handlers)
         /\ pc' = IF r.err = NoError THEN "built" ELSE "failed"
  /\ UNCHANGED <<assemblyVars, factory, handlers, providers, request, served, ctxHandler, response,
                 pipelineVars, lifecycleVars>>

\* One request handed to the built dispatcher.
ServeHTTP(path) ==
  /\ pc = "built"
  /\ LET r == DemuxHandlerImpl_ServeHTTP(dispatcher, path)
     IN  /\ request' = path
         /\ served' = r.served
         /\ ctxHandler' = r.ctxHandler
         /\ response' = r.response
         /\ dispatcher' = DemuxHandlerImpl_Captured(dispatcher, path)
  /\ UNCHANGED <<assemblyVars, factory, handlers, pc, buildErr, resolved, providers,
                 pipelineVars, lifecycleVars>>

Next ==
  \/ Build
  \/ \E path \in Requests : ServeHTTP(path)

Spec == Init /\ [][Next]_vars

\* The wrapped handler and the provider chains are explored on handler lists
\* of at most this length.
MaxChainHandlers == 1

\* ------------------------------------------- state machine: wrapped handler

\* Any bind point, with or without the hook, on a short handler list.
InitWrapped ==
  /\ InitDemux
  /\ Len(handlers) <= MaxChainHandlers
  /\ bindPoint \in [NewAddress : NewAddresses]
  /\ OnHandlerPanic \in {Nil, Hook}
  /\ exchange = NoExchange
  /\ InitServers
  /\ InitAssembly

\* One request handed by the http.Server to its Handler, the wrapped
\* dispatcher; fault: the handler that serves it panics.
HttpServerRequest(path, fault) ==
  /\ pc = "built"
  /\ LET x == wrapHandler(bindPoint,
                 [NoExchange EXCEPT !.fault = fault,
                                    !.afterPanic = exchange.afterPanic \/ exchange.fault],
                 path)
     IN  /\ request' = path
         /\ served' = x.served
         /\ ctxHandler' = x.ctxHandler
         /\ response' = x.response
         /\ exchange' = x
  /\ UNCHANGED <<assemblyVars, factory, handlers, pc, dispatcher, buildErr, resolved, providers,
                 bindPoint, OnHandlerPanic, lifecycleVars>>

NextWrapped ==
  \/ Build
  \/ \E path \in Requests : \E fault \in BOOLEAN : HttpServerRequest(path, fault)

SpecWrapped == InitWrapped /\ [][NextWrapped]_vars

\* ------------------------------------------------ state machine: lifecycle

demuxVars == <<factory, handlers, pc, dispatcher, buildErr, resolved, providers,
               request, served, ctxHandler, response>>

\* The servers of one configuration, built.
InitLifecycle ==
  /\ Init
  /\ factory = "IsHandled"
  /\ handlers = <<>>

\* InstanceImpl.Start, one iteration: go func() { s.Start() }()
InstanceStartGo ==
  /\ instancePc.Start <= MaxServers
  /\ LET s == StartTarget(instancePc.Start)
     IN  startTask' = [startTask EXCEPT ![s] =
           [launched |-> @.launched + 1, at |-> "listen", k |-> 1, err |-> "nil"]]
  /\ instancePc' = [instancePc EXCEPT !.Start = @ + 1]
  /\ UNCHANGED <<assemblyVars, demuxVars, pipelineVars, shutdownTask, httpServers>>

\* Server.Start at a bind point: ListenTLS, then httpServer.Serve(l) up to
\* its first Accept.  A failed ListenTLS returns the error; Serve on an
\* http.Server that was shut down closes the listener and returns
\* http.ErrServerClosed; else the serve loop accepts and Start blocks in it.
ListenAndServe(s, listenErr) ==
  /\ startTask[s].at = "listen"
  /\ LET k == startTask[s].k
     IN  IF listenErr
         THEN /\ httpServers' = [httpServers EXCEPT ![s][k].listener = "failed"]
              /\ startTask' = [startTask EXCEPT ![s].at = "returned", ![s].err = "listen"]
         ELSE IF ~TrackListener(httpServers[s][k])
         THEN /\ httpServers' = [httpServers EXCEPT
                    ![s][k].listener = "closed",
                    ![s][k].outcome = "ErrServerClosed"]
              /\ startTask' = [startTask EXCEPT ![s] = AfterServe(s, @, k, FALSE)]
         ELSE /\ httpServers' = [httpServers EXCEPT ![s][k].listener = "accepting"]
              /\ startTask' = [startTask EXCEPT ![s].at = "serve"]
  /\ UNCHANGED <<assemblyVars, demuxVars, pipelineVars, instancePc, shutdownTask>>

\* httpServer.Serve(l) returns: http.ErrServerClosed once the http.Server is
\* shut down, and the loop goes on; any other error at any time before, and
\* Start returns it.
ServeReturns(s, serveErr) ==
  /\ startTask[s].at = "serve"
  /\ LET k == startTask[s].k
     IN  /\ serveErr = ~httpServers[s][k].inShutdown
         /\ httpServers' = [httpServers EXCEPT
               ![s][k].listener = "closed",
               ![s][k].outcome = IF serveErr THEN "other" ELSE "ErrServerClosed"]
         /\ startTask' = [startTask EXCEPT ![s] = AfterServe(s, @, k, serveErr)]
  /\ UNCHANGED <<assemblyVars, demuxVars, pipelineVars, instancePc, shutdownTask>>

\* InstanceImpl.Shutdown, one iteration: go func() { ctx, cancel :=
\* context.WithTimeout(...); localServer.Shutdown(ctx) }()
InstanceShutdownGo ==
  /\ instancePc.Shutdown <= MaxServers
  /\ LET s == ShutdownTarget(instancePc.Shutdown)
     IN  shutdownTask' = [shutdownTask EXCEPT ![s] =
           [signalled |-> @.signalled + 1, at |-> "shutdown", k |-> 1,
            ctx |-> [timeout |-> ShutdownTimeout, expired |-> FALSE],
            errs |-> <<>>]]
  /\ instancePc' = [instancePc EXCEPT !.Shutdown = @ + 1]
  /\ UNCHANGED <<assemblyVars, demuxVars, pipelineVars, startTask, httpServers>>

\* localServer.Shutdown(ctx) is called: the http.Server is marked shut down
\* and its listener closed.  With connections that do not go idle (hangs) it
\* blocks on ctx; else, or with ctx already done, it returns.
HttpShutdown(s, hangs) ==
  /\ shutdownTask[s].at = "shutdown"
  /\ LET k == shutdownTask[s].k
     IN  /\ hangs => httpServers[s][k].listener = "accepting"
         /\ httpServers' = [httpServers EXCEPT
               ![s][k].inShutdown = TRUE,
               ![s][k].early = @ \/ httpServers[s][k].listener = "none",
               ![s][k].listener = IF @ = "accepting" THEN "closed" ELSE @]
         /\ shutdownTask' = [shutdownTask EXCEPT ![s] =
               IF hangs /\ ~@.ctx.expired THEN [@ EXCEPT !.at = "wait"]
               ELSE ShutdownAfter(s, @, k, IF hangs THEN "deadline" ELSE "nil")]
  /\ UNCHANGED <<assemblyVars, demuxVars, pipelineVars, instancePc, startTask>>

\* A blocked localServer.Shutdown(ctx) returns: nil when the connections
\* have gone idle, ctx.Err() when ctx is done.
HttpShutdownReturns(s, drained) ==
  /\ shutdownTask[s].at = "wait"
  /\ drained \/ shutdownTask[s].ctx.expired
  /\ shutdownTask' = [shutdownTask EXCEPT ![s] =
        ShutdownAfter(s, @, @.k, IF drained THEN "nil" ELSE "deadline")]
  /\ UNCHANGED <<assemblyVars, demuxVars, pipelineVars, instancePc, startTask, httpServers>>

\* The timeout of the task's ctx passes.
DeadlineExpires(s) ==
  /\ shutdownTask[s].at \in {"shutdown", "wait"}
  /\ ~shutdownTask[s].ctx.expired
  /\ shutdownTask' = [shutdownTask EXCEPT ![s].ctx.expired = TRUE]
  /\ UNCHANGED <<assemblyVars, demuxVars, pipelineVars, instancePc, startTask, httpServers>>

NextLifecycle ==
  \/ InstanceStartGo
  \/ \E s \in Servers : \E listenErr \in BOOLEAN : ListenAndServe(s, listenErr)
  \/ \E s \in Servers : \E serveErr \in BOOLEAN : ServeReturns(s, serveErr)
  \/ InstanceShutdownGo
  \/ \E s \in Servers : \E hangs \in BOOLEAN : HttpShutdown(s, hangs)
  \/ \E s \in Servers : \E drained \in BOOLEAN : HttpShutdownReturns(s, drained)
  \/ \E s \in Servers : DeadlineExpires(s)

SpecLifecycle == InitLifecycle /\ [][NextLifecycle]_vars

\* Every goroutine that can take a step takes it: a launched Start listens
\* and leaves a closed serve loop, a launched Shutdown calls and leaves each
\* http.Server's Shutdown, and the timeout of its ctx passes.  Nothing makes
\* a serve loop fail or connections go idle.
FairLifecycle ==
  \A s \in Servers :
    /\ WF_vars(\E listenErr \in BOOLEAN : ListenAndServe(s, listenErr))
    /\ WF_vars(ServeReturns(s, FALSE))
    /\ WF_vars(\E hangs \in BOOLEAN : HttpShutdown(s, hangs))
    /\ WF_vars(HttpShutdownReturns(s, FALSE))
    /\ WF_vars(DeadlineExpires(s))

SpecLifecycleFair == SpecLifecycle /\ FairLifecycle

\* ---------------------------------------------- state machine: the providers

InitChain == Init /\ Len(handlers) <= MaxChainHandlers

\* provider.SetDefaultHttpHandler(handler), handler possibly nil.  The server
\* and its DemuxHandler exist once NewServer has built them.
SetDefaultHttpHandler(p, h) ==
  /\ p \in {"server", "demuxHandler"} => pc = "built"
  /\ providers[p].HttpHandler # h
  /\ providers' = [providers EXCEPT ![p].HttpHandler = h]
  /\ UNCHANGED <<assemblyVars, factory, handlers, pc, dispatcher, buildErr, resolved,
                 request, served, ctxHandler, response, pipelineVars, lifecycleVars>>

NextProviders ==
  \/ Build
  \/ \E p \in Providers : \E h \in {Nil, CustomHandler(p)} : SetDefaultHttpHandler(p, h)
  \/ \E path \in Requests : ServeHTTP(path)

SpecProviders == InitChain /\ [][NextProviders]_vars

\* demuxHandler, err := instance.GetDemuxFactory().Build(handlers), with the
\* factories of the first demux.
BuildFirstDemux ==
  /\ pc = "start"
  /\ LET r == IF factory = "PathPrefix"
              THEN FirstDemux_PathPrefixDemuxFactory_Build(handlers)
              ELSE FirstDemux_IsHandledDemuxFactory_Build(handlers)
     IN  /\ dispatcher' = r.dispatcher
         /\ buildErr' = r.err
         /\ resolved' = [handler |-> FirstDemux_defaultApi(handlers), err |-> NoError]
         /\ pc' = IF r.err = NoError THEN "built" ELSE "failed"
  /\ UNCHANGED <<assemblyVars, factory, handlers, providers, request, served, ctxHandler, response,
                 pipelineVars, lifecycleVars>>

NextFirstDemux ==
  \/ BuildFirstDemux
  \/ \E p \in Providers : \E h \in {Nil, CustomHandler(p)} : SetDefaultHttpHandler(p, h)
  \/ \E path \in Requests : ServeHTTP(path)

SpecFirstDemux == InitChain /\ [][NextFirstDemux]_vars

\* --------------------------------------------- state machine: composition

\* Nothing served, no hook, the servers' lifecycle not begun.
InitIdle ==
  /\ InitDemux
  /\ handlers = <<>>
  /\ bindPoint = [NewAddress |-> <<>>]
  /\ OnHandlerPanic = Nil
  /\ exchange = NoExchange
  /\ InitServers

\* An instance with either DemuxFactory, an empty registry and any
\* configuration of ServerConfigs.
InitCompose ==
  /\ InitIdle
  /\ registry = NewRegistryMap
  /\ added = NoAdds
  /\ instance \in {NewInstance(c) : c \in ServerConfigLists}
  /\ instanceConfig = NewInstanceConfig("nil")
  /\ loadCall = NoCall

\* registry.Add(factory), before the instance is built.
RegistryAdd(f) ==
  /\ instance.at = "new"
  /\ LET r == RegistryMap_Add(registry, f)
     IN  /\ registry' = r.registry
         /\ added' = [first |-> [added.first EXCEPT ![f.binding] = IF @ = Nil THEN f ELSE @],
                      last |-> [factory |-> f, err |-> r.err,
                                again |-> added.first[f.binding] # Nil]]
  /\ UNCHANGED <<demuxVars, pipelineVars, lifecycleVars, instance, configVars>>

\* One iteration of Instance.Build's loop: NewServer for the next
\* ServerConfig, and what Build does with its result.
InstanceBuildServer ==
  /\ instance.at \in {"new", "building"}
  /\ instance' = InstanceImpl_Build(instance,
                    NewServer(factory, instance.ServerConfigs[instance.next], registry))
  /\ UNCHANGED <<demuxVars, pipelineVars, lifecycleVars, registry, added, configVars>>

\* Instance.Start, called as Run calls it: after Build has returned.
InstanceStartBuilt ==
  /\ instance.at = "built"
  /\ instance' = [instance EXCEPT !.at = "started", !.startedOn = <<instance.servers>>]
  /\ UNCHANGED <<demuxVars, pipelineVars, lifecycleVars, registry, added, configVars>>

NextCompose ==
  \/ \E f \in Factories : RegistryAdd(f)
  \/ InstanceBuildServer
  \/ InstanceStartBuilt

SpecCompose == InitCompose /\ [][NextCompose]_vars

\* ------------------------------------------- state machine: configuration

\* An InstanceConfig with or without a default identity given, nothing
\* parsed.
InitConfig ==
  /\ InitIdle
  /\ registry = NewRegistryMap
  /\ added = NoAdds
  /\ instance = NewInstance(<<>>)
  /\ instanceConfig \in {NewInstanceConfig(i) : i \in {"nil", "given"}}
  /\ loadCall = NoCall

\* The configuration maps whose web section lets the ServerConfigs stay
\* within MaxServers.
FittingConfigMaps(c) ==
  {m \in ConfigMaps : Len(c.ServerConfigs) + Len(m.servers) <= MaxServers}

\* config.Parse(configMap)
Parse(m) ==
  /\ m \in FittingConfigMaps(instanceConfig)
  /\ LET r == InstanceConfig_Parse(instanceConfig, m)
     IN  /\ instanceConfig' = r.config
         /\ loadCall' = [op |-> "Parse", err |-> r.err, checked |-> <<>>]
  /\ UNCHANGED <<demuxVars, pipelineVars, lifecycleVars, compositionVars>>

\* config.Validate(registry), on a parsed configuration.
Validate ==
  /\ instanceConfig.DefaultIdentity # "nil" \/ instanceConfig.defaultIdentityConfig # "nil"
  /\ LET r == InstanceConfig_Validate(instanceConfig)
     IN  /\ instanceConfig' = r.config
         /\ loadCall' = [op |-> "Validate", err |-> r.err, checked |-> <<instanceConfig>>]
  /\ UNCHANGED <<demuxVars, pipelineVars, lifecycleVars, compositionVars>>

\* instance.LoadConfig(cfgmap)
LoadConfig(m) ==
  /\ m \in FittingConfigMaps(instanceConfig)
  /\ LET r == InstanceImpl_LoadConfig(instanceConfig, m)
     IN  /\ instanceConfig' = r.config
         /\ loadCall' = [op |-> "LoadConfig", err |-> r.err, checked |-> r.checked]
  /\ UNCHANGED <<demuxVars, pipelineVars, lifecycleVars, compositionVars>>

NextConfig ==
  \/ \E m \in ConfigMaps : Parse(m)
  \/ Validate
  \/ \E m \in ConfigMaps : LoadConfig(m)

SpecConfig == InitConfig /\ [][NextConfig]_vars

\* =================================================================== claims

\* The positions of the handlers that declare themselves the default.
Declared(hs) == {i \in 1..Len(hs) : DeclaresDefault(hs[i])}

\* Build has returned.
Returned == pc # "start"

\* The bindings an error names.
NamedBindings(err) ==
  IF err.kind = "duplicate root path"
  THEN {err.names[i] : i \in 1..Len(err.names)}
  ELSE {err.names[i].Binding : i \in 1..Len(err.names)}

\* C1: for a non-empty handler list in which exactly one handler declares
\* itself default, getDefault succeeds and returns that handler, whatever its
\* position, and a Dispatcher that is built holds it.
C1_OneDeclaredDefaultIsResolved ==
  (Returned /\ Cardinality(Declared(handlers)) = 1) =>
    \A i \in Declared(handlers) :
      /\ resolved.err = NoError
      /\ resolved.handler = handlers[i]
      /\ pc = "built" => dispatcher.defaultApi = handlers[i]

\* C1 witness: three handlers, only the middle one declares itself default,
\* and the Dispatcher built holds it.
C1_Witness ==
  /\ pc = "built"
  /\ Len(handlers) = 3
  /\ Declared(handlers) = {2}
  /\ dispatcher.defaultApi = handlers[2]

\* C2: for a non-empty handler list in which no handler declares itself
\* default, getDefault succeeds and returns the last handler of the list.
C2_NoDeclaredDefaultResolvesToLast ==
  (Returned /\ Len(handlers) > 0 /\ Declared(handlers) = {}) =>
    /\ resolved.err = NoError
    /\ resolved.handler = handlers[Len(handlers)]
    /\ pc = "built" => dispatcher.defaultApi = handlers[Len(handlers)]

\* C2 witness: three handlers, none declares itself default, and the
\* Dispatcher built holds the third.
C2_Witness ==
  /\ pc = "built"
  /\ Len(handlers) = 3
  /\ Declared(handlers) = {}
  /\ dispatcher.defaultApi = handlers[3]

\* C3: when two or more handlers declare themselves default, Build fails,
\* returns no dispatcher and no default, and the error names every one of the
\* handlers that declare themselves default and no other handler.
C3_ManyDeclaredDefaultsFailNamingAll ==
  (Returned /\ Cardinality(Declared(handlers)) >= 2) =>
    /\ pc = "failed"
    /\ dispatcher = Nil
    /\ resolved.handler = Nil
    /\ buildErr.kind = "too many default handlers found"
    /\ Len(buildErr.names) = Cardinality(Declared(handlers))
    /\ \A i \in Declared(handlers) :
         \E k \in 1..Len(buildErr.names) : buildErr.names[k] = HandlerName(handlers[i])

\* C3 witness: three handlers that all declare themselves default; Build has
\* failed and the error names the third.
C3_Witness ==
  /\ pc = "failed"
  /\ Declared(handlers) = {1, 2, 3}
  /\ BindingName(3) \in NamedBindings(buildErr)

\* C4: for an empty handler list, Build of either factory fails with an
\* error and returns no dispatcher, and getDefault returns no default.
C4_EmptyListFails ==
  (Returned /\ Len(handlers) = 0) =>
    /\ pc = "failed"
    /\ buildErr # NoError
    /\ dispatcher = Nil
    /\ resolved.handler = Nil
    /\ resolved.err # NoError

\* C4 witness: the path-prefix factory has failed on the empty list.
C4_Witness ==
  /\ pc = "failed"
  /\ factory = "PathPrefix"
  /\ handlers = <<>>
  /\ buildErr = ErrNoHandlers

\* C5: a Dispatcher that Build returned holds a default handler that is not
\* nil and is one of the handlers of the input list; no Dispatcher is returned
\* for the empty list.
C5_DispatcherDefaultIsAHandler ==
  /\ dispatcher # Nil =>
       /\ pc = "built"
       /\ dispatcher.defaultApi # Nil
       /\ \E i \in 1..Len(handlers) : handlers[i] = dispatcher.defaultApi
  /\ pc = "built" => dispatcher # Nil /\ Len(handlers) > 0

\* C5 witness: the predicate factory has built a Dispatcher whose default is
\* the first of two handlers.
C5_Witness ==
  /\ pc = "built"
  /\ factory = "IsHandled"
  /\ Len(handlers) = 2
  /\ dispatcher.defaultApi = handlers[1]

\* A request has been handed to the built dispatcher.
Dispatched == pc = "built" /\ request # NoRequest

\* The positions of the handlers that match a path under a factory's rule.
Matching(f, hs, path) ==
  {i \in 1..Len(hs) : IF f = "PathPrefix"
                       THEN HasPrefix(path, hs[i].rootPath)
                       ELSE IsHandler(hs[i], path)}

\* That exactly handler h served the request, once, and got itself in the
\* request context.
ServedByOnly(h) ==
  /\ served = <<[kind |-> "ApiHandler", id |-> h.id]>>
  /\ ctxHandler = h

\* The default of a list that Build accepts: the declared one, else the last.
ExpectedDefault(hs) ==
  IF Declared(hs) = {} THEN hs[Len(hs)]
  ELSE hs[CHOOSE i \in Declared(hs) : TRUE]

\* C6: predicate strategy: the handler that serves a request is the first in
\* declared order whose IsHandler returns true for it, also when a later
\* handler's predicate is true too; no other handler is invoked.
C6_PredicateFirstMatchServes ==
  (Dispatched /\ factory = "IsHandled"
     /\ Matching("IsHandled", handlers, request) # {}) =>
    \E i \in Matching("IsHandled", handlers, request) :
      /\ \A j \in Matching("IsHandled", handlers, request) : i <= j
      /\ ServedByOnly(handlers[i])

\* C6 witness: the first handler never matches, the second and the third
\* both claim /a/b/x, and the second served it.
C6_Witness ==
  /\ Dispatched /\ factory = "IsHandled"
  /\ request = ReqABX
  /\ Matching("IsHandled", handlers, request) = {2, 3}
  /\ ServedByOnly(handlers[2])

\* C7: prefix strategy: the handler that serves a request is the first in
\* declared order whose root path is a string prefix of the request path;
\* declaration order decides, not the longest prefix.
C7_PrefixFirstMatchServes ==
  (Dispatched /\ factory = "PathPrefix"
     /\ Matching("PathPrefix", handlers, request) # {}) =>
    \E i \in Matching("PathPrefix", handlers, request) :
      /\ \A j \in Matching("PathPrefix", handlers, request) : i <= j
      /\ ServedByOnly(handlers[i])

\* C7 witness: /a is declared before /a/b and the request to /a/b/x was
\* served by the /a handler.
C7_Witness ==
  /\ Dispatched /\ factory = "PathPrefix"
  /\ Len(handlers) >= 2
  /\ handlers[1].rootPath = PathA
  /\ handlers[2].rootPath = PathAB
  /\ request = ReqABX
  /\ ServedByOnly(handlers[1])

\* The pairs of positions whose handlers declare the same root path.
SameRootPath(hs) ==
  {p \in (1..Len(hs)) \X (1..Len(hs)) : p[1] < p[2] /\ hs[p[1]].rootPath = hs[p[2]].rootPath}

\* The pair the duplicate check stops at: the first handler, in list order,
\* whose root path an earlier handler declared, and that earlier handler.
FirstSameRootPath(hs) ==
  CHOOSE p \in SameRootPath(hs) :
    \A q \in SameRootPath(hs) : p[2] < q[2] \/ (p[2] = q[2] /\ p[1] <= q[1])

\* C8 as stated: when two handlers declare the same root path, Build fails,
\* returns no dispatcher and the error names the bindings of two handlers that
\* declare the same root path; with distinct root paths and a resolved default
\* Build succeeds.
C8_AsStated ==
  (Returned /\ factory = "PathPrefix") =>
    /\ SameRootPath(handlers) # {} =>
         /\ pc = "failed"
         /\ dispatcher = Nil
         /\ \E p \in SameRootPath(handlers) :
              {handlers[p[1]].binding, handlers[p[2]].binding} \subseteq NamedBindings(buildErr)
    /\ (SameRootPath(handlers) = {} /\ resolved.err = NoError) => pc = "built"

\* C8 amended: when two handlers declare the same root path, Build fails and
\* returns no dispatcher; if default resolution succeeded the error is the
\* duplicate-root-path error naming the first handler, in list order, whose
\* root path was already declared, and the earlier handler that declared it;
\* with distinct root paths and a resolved default Build succeeds.
C8_DuplicateRootPathFails ==
  (Returned /\ factory = "PathPrefix") =>
    /\ SameRootPath(handlers) # {} => pc = "failed" /\ dispatcher = Nil
    /\ (SameRootPath(handlers) # {} /\ resolved.err = NoError) =>
         LET p == FirstSameRootPath(handlers)
         IN  buildErr = ErrDuplicateRootPath(handlers[p[2]].rootPath,
                          <<handlers[p[2]].binding, handlers[p[1]].binding>>)
    /\ (SameRootPath(handlers) # {} /\ resolved.err # NoError) =>
         buildErr = resolved.err
    /\ (SameRootPath(handlers) = {} /\ resolved.err = NoError) =>
         /\ pc = "built"
         /\ buildErr = NoError
         /\ dispatcher # Nil

\* C8 witness: the second and the third handler declare /a, the first does
\* not, and Build failed naming the third and the second.
C8_Witness ==
  /\ pc = "failed" /\ factory = "PathPrefix"
  /\ Len(handlers) = 3
  /\ SameRootPath(handlers) = {<<2, 3>>}
  /\ buildErr = ErrDuplicateRootPath(PathA, <<BindingName(3), BindingName(2)>>)

\* C9: in both strategies a request that no handler matches is served by the
\* resolved default handler and by no other handler.
C9_UnmatchedServedByDefault ==
  (Dispatched /\ Matching(factory, handlers, request) = {}) =>
    /\ ServedByOnly(ExpectedDefault(handlers))
    /\ dispatcher.defaultApi = ExpectedDefault(handlers)

\* C9 witness: the first of two handlers declares itself default, no root
\* path is a prefix of /unknown, and the first handler served it.
C9_Witness ==
  /\ Dispatched /\ factory = "PathPrefix"
  /\ Len(handlers) = 2
  /\ Declared(handlers) = {1}
  /\ request = ReqUnknown
  /\ Matching(factory, handlers, request) = {}
  /\ ServedByOnly(handlers[1])

\* C10 as stated: a request that matches none of the handlers is answered
\* with 404 and an empty body.
C10_AsStated ==
  (Dispatched /\ Matching(factory, handlers, request) = {}) =>
    response = [status |-> 404, body |-> <<>>]

\* C10 amended: a request that matches none of the handlers is answered by
\* the resolved default handler (the last handler when none declares itself
\* default), here with 200 and its binding, and the dispatcher writes no 404.
C10_UnmatchedAnsweredByDefault ==
  (Dispatched /\ Matching(factory, handlers, request) = {}) =>
    /\ response = [status |-> 200, body |-> ExpectedDefault(handlers).binding]
    /\ served # <<>>
    /\ served[1].kind = "ApiHandler"

\* C10 witness: the only handler has root path /mock and does not declare
\* itself default; the request to /unknown got 200 and the handler's binding.
C10_Witness ==
  /\ Dispatched /\ factory = "PathPrefix"
  /\ Len(handlers) = 1
  /\ handlers[1].rootPath = PathMock
  /\ Declared(handlers) = {}
  /\ request = ReqUnknown
  /\ response = [status |-> 200, body |-> BindingName(1)]

\* The handler of the nearest provider that has one, from p outward along the
\* Parent links; Nil when no provider of the chain has one.
RECURSIVE NearestHandler(_)
NearestHandler(p) ==
  IF providers[p].HttpHandler # Nil THEN providers[p].HttpHandler
  ELSE IF providers[p].Parent = "nil" THEN Nil
  ELSE NearestHandler(providers[p].Parent)

C12_AsStated ==
  \A p \in Providers :
    GetDefaultHttpHandler(p) =
      IF NearestHandler(p) # Nil THEN NearestHandler(p) ELSE Handler404

\* C12 amended: GetDefaultHttpHandler on any provider returns the handler of
\* the nearest provider that has one; when no provider of the chain has one
\* it returns the built-in 404 handler if the provider has a parent, and nil
\* if it has none.
C12_NearestHandlerElseNotFoundOrNil ==
  \A p \in Providers :
    GetDefaultHttpHandler(p) =
      IF NearestHandler(p) # Nil THEN NearestHandler(p)
      ELSE IF providers[p].Parent = "nil" THEN Nil ELSE Handler404

\* C12 witness: the server and the instance both have a handler, the
\* dispatcher has none; the dispatcher's provider returns the server's, the
\* factory (no parent, no handler) returns nil.
C12_Witness ==
  /\ pc = "built"
  /\ providers["demuxHandler"].HttpHandler = Nil
  /\ providers["server"].HttpHandler = CustomHandler("server")
  /\ providers["instance"].HttpHandler = CustomHandler("instance")
  /\ providers["factory"].HttpHandler = Nil
  /\ GetDefaultHttpHandler("demuxHandler") = CustomHandler("server")
  /\ GetDefaultHttpHandler("factory") = Nil

\* C13: for every request handed to a dispatcher exactly one serving entry
\* point is invoked, once: a registered handler (the first match, or the
\* resolved default when none matches), a fallback http handler, or the
\* built-in 404.
C13_ExactlyOneEntryPoint ==
  Dispatched =>
    /\ Len(served) = 1
    /\ \/ /\ served[1].kind = "ApiHandler"
          /\ LET m == Matching(factory, handlers, request)
             IN  served[1].id = IF m = {} THEN dispatcher.defaultApi.id
                                ELSE CHOOSE i \in m : \A j \in m : i <= j
       \/ served[1].kind \in {"defaultHttpHandler", "notFound"}

\* C13 witness: two prefix handlers match the request, neither is the
\* default, and one entry point was invoked.
C13_Witness ==
  /\ Dispatched /\ factory = "PathPrefix"
  /\ Len(handlers) = 3
  /\ Matching(factory, handlers, request) = {1, 2}
  /\ dispatcher.defaultApi = handlers[3]
  /\ served = <<[kind |-> "ApiHandler", id |-> 1]>>

\* C14 as stated: when Server.Start has returned an error, the listener of
\* every bind point of the server has been started; and while Start is
\* blocked serving a bind point of a server nobody shut down, the listener
\* of every bind point whose listen did not fail is accepting.
C14_AsStated ==
  \A s \in Servers :
    /\ (startTask[s].at = "returned" /\ startTask[s].err # "nil") =>
         \A k \in BindPoints(s) : httpServers[s][k].listener # "none"
    /\ (startTask[s].at = "serve" /\ \A k \in BindPoints(s) : ~httpServers[s][k].inShutdown) =>
         \A k \in BindPoints(s) : httpServers[s][k].listener \in {"accepting", "failed"}

\* C15: Instance.Start launches Start of each built server once, in its own
\* goroutine, and never waits: whatever the launched Starts have done
\* (failed, blocked, not begun), the next launch can be taken.
C15_StartLaunchesEveryServer ==
  /\ \A s \in Servers :
       startTask[s].launched = IF s < instancePc.Start THEN 1 ELSE 0
  /\ instancePc.Start <= MaxServers => ENABLED InstanceStartGo

\* C15 witness: Instance.Start has returned; the first server's Start has
\* failed on its first listen, the last server's Start has been launched and
\* has not begun, the others are blocked in Serve.
C15_Witness ==
  /\ instancePc.Start > MaxServers
  /\ startTask[1].at = "returned" /\ startTask[1].err = "listen"
  /\ startTask[MaxServers].launched = 1 /\ startTask[MaxServers].at = "listen"
  /\ \A s \in Servers \ {1, MaxServers} : startTask[s].at = "serve"

\* C16: Instance.Shutdown signals each built server once per call, each in a
\* goroutine of its own with a ctx of its own that times out after 15
\* seconds, and never waits for a shutdown to complete before it signals the
\* next server or returns.
C16_ShutdownSignalsEveryServerOnce ==
  /\ \A s \in Servers :
       /\ shutdownTask[s].signalled = IF s < instancePc.Shutdown THEN 1 ELSE 0
       /\ shutdownTask[s].signalled = 1 => shutdownTask[s].ctx.timeout = 15
  /\ instancePc.Shutdown <= MaxServers => ENABLED InstanceShutdownGo

\* C16 witness: Instance.Shutdown has returned; the first server's shutdown
\* hangs on its first listener with its deadline still ahead, the last
\* server's shutdown has completed and its own deadline never passed.
C16_Witness ==
  /\ instancePc.Shutdown > MaxServers
  /\ shutdownTask[1].at = "wait" /\ shutdownTask[1].k = 1
  /\ ~shutdownTask[1].ctx.expired
  /\ shutdownTask[MaxServers].at = "returned"
  /\ ~shutdownTask[MaxServers].ctx.expired

\* C17: when Server.Shutdown(ctx) has returned, shutdown has been called on
\* the http.Server of every bind point, whatever the earlier calls returned;
\* and once ctx is done Server.Shutdown is never blocked: its next step can
\* be taken, so it returns.
C17_ShutdownReachesEveryListener ==
  \A s \in Servers :
    /\ shutdownTask[s].at = "returned" =>
         /\ \A k \in BindPoints(s) : httpServers[s][k].inShutdown
         /\ Len(shutdownTask[s].errs) = NumBindPoints(s)
    /\ (shutdownTask[s].at = "shutdown" /\ shutdownTask[s].ctx.expired) =>
         ENABLED (\E hangs \in BOOLEAN : HttpShutdown(s, hangs))
    /\ (shutdownTask[s].at = "wait" /\ shutdownTask[s].ctx.expired) =>
         ENABLED HttpShutdownReturns(s, FALSE)

\* C17 witness: the shutdown of the first listener of a server hung until
\* the deadline passed, the shutdown of the last one was still called, and
\* Server.Shutdown has returned.
C17_Witness ==
  /\ shutdownTask[1].at = "returned"
  /\ shutdownTask[1].ctx.expired
  /\ shutdownTask[1].errs[1] = "deadline"
  /\ httpServers[1][MaxBindPoints].inShutdown
  /\ httpServers[1][MaxBindPoints].listener = "closed"

DeclaredApis(i) == instance.ServerConfigs[i]

\* NewServer has been called for the i-th ServerConfig.
Attempted(i) ==
  \/ i < instance.next
  \/ i = instance.next /\ instance.at = "exited"

\* The positions of the i-th ServerConfig's APIs that cannot be resolved: no
\* factory registered, or one whose New returns an error.
Unresolvable(i) ==
  {j \in 1..Len(DeclaredApis(i)) :
     \/ registry[DeclaredApis(i)[j]] = Nil
     \/ registry[DeclaredApis(i)[j]].New = "error"}

\* C22: once Build has returned, and when Start runs, the Instance holds one
\* server per ServerConfig in configuration order; while Build runs it holds
\* one per ServerConfig done; once a NewServer has failed the process has
\* exited with the servers built before it, Start has not run and neither
\* Build nor Start goes on.
C22_BuildIsAllOrExit ==
  /\ Len(instance.servers) = instance.next - 1
  /\ \A i \in 1..Len(instance.servers) :
       instance.servers[i].ApiBindingList = DeclaredApis(i)
  /\ instance.at \in {"built", "started"} =>
       Len(instance.servers) = Len(instance.ServerConfigs)
  /\ instance.startedOn # <<>> =>
       /\ instance.startedOn[1] = instance.servers
       /\ Len(instance.servers) = Len(instance.ServerConfigs)
  /\ instance.at = "exited" =>
       /\ instance.fatal # "none"
       /\ Len(instance.servers) < Len(instance.ServerConfigs)
       /\ instance.startedOn = <<>>
       /\ ~ENABLED (InstanceBuildServer \/ InstanceStartBuilt)
  /\ instance.fatal # "none" => instance.at = "exited"

\* C22 witness: Start runs on the servers of every ServerConfig, the first
\* with two APIs.
C22_Witness ==
  /\ instance.at = "started"
  /\ Len(instance.startedOn[1]) = MaxServers
  /\ Len(instance.servers[1].ApiBindingList) = 2

\* C23: for every ServerConfig NewServer was called for: if one of its
\* declared APIs has no factory or a factory whose New fails, the process
\* has exited with the message of the first such API and the demux Build was
\* not called for that server; otherwise Build was called with one handler
\* per declared API, each made by that binding's factory, in declared order,
\* and every server's dispatcher was built from that whole list.
C23_AllHandlersResolvedBeforeBuild ==
  /\ \A i \in 1..Len(instance.ServerConfigs) :
       Attempted(i) =>
         IF Unresolvable(i) # {}
         THEN LET j == CHOOSE k \in Unresolvable(i) : \A l \in Unresolvable(i) : k <= l
              IN  /\ instance.at = "exited" /\ instance.next = i
                  /\ instance.fatal = IF registry[DeclaredApis(i)[j]] = Nil
                                       THEN "no associated factory registered"
                                       ELSE "encountered error building handler"
                  /\ Len(instance.demuxInputs) = i - 1
         ELSE /\ Len(instance.demuxInputs) >= i
              /\ instance.demuxInputs[i] =
                   [j \in 1..Len(DeclaredApis(i)) |->
                      ApiHandlerOf(registry[DeclaredApis(i)[j]], j)]
  /\ \A i \in 1..Len(instance.servers) :
       /\ instance.servers[i].handlers = instance.demuxInputs[i]
       /\ instance.servers[i].demuxHandler.handlers = instance.demuxInputs[i]

\* C23 witness: a server was built whose two APIs are declared second
\* binding first, and its Build got the two handlers in that order.
C23_Witness ==
  /\ Len(instance.servers) >= 1
  /\ DeclaredApis(1) = <<BindingName(2), BindingName(1)>>
  /\ instance.demuxInputs[1][1].binding = BindingName(2)
  /\ instance.demuxInputs[1][2].binding = BindingName(1)

\* C25: Get of a binding returns the first factory that was added under it,
\* nil if none was, so an Add of a registered binding changes nothing; and
\* Add returns an error exactly when the binding had been added before.
C25_RegistryKeepsFirstFactory ==
  /\ \A b \in Bindings : RegistryMap_Get(registry, b) = added.first[b]
  /\ added.last.factory # Nil =>
       (added.last.err # "nil") = added.last.again

\* C25 witness: the last Add was of another factory for a registered binding
\* and returned an error, Get still returns the first, and the other
\* binding was never added.
C25_Witness ==
  /\ added.last.again /\ added.last.err = "already registered"
  /\ added.last.factory.binding = BindingName(1)
  /\ RegistryMap_Get(registry, BindingName(1)) # added.last.factory
  /\ RegistryMap_Get(registry, BindingName(1)) = added.first[BindingName(1)]
  /\ added.first[BindingName(2)] = Nil
  /\ RegistryMap_Get(registry, BindingName(2)) = Nil

\* That a configuration passes every check of Validate: a default identity
\* is there or can be loaded, and every ServerConfig is valid, has an
\* identity valid for its bind points, and API factories that accept it.
PassesEveryCheck(c) ==
  /\ c.DefaultIdentity # "nil" \/ c.defaultIdentityConfig = "loadable"
  /\ \A i \in 1..Len(c.ServerConfigs) : c.ServerConfigs[i] = "valid"

C21_AsStated ==
  \A s \in Servers :
    startTask[s].launched > 0 =>
      /\ startTask[s].err # "listen"
      /\ \A k \in BindPoints(s) : httpServers[s][k].listener # "failed"

\* C29: a listener whose http.Server was shut down before its serve loop
\* began never accepts, no listener accepts once its http.Server is shut
\* down, and a Start that was launched on a server that Shutdown was called
\* on returns.
C29_StartReturnsAfterShutdown ==
  /\ [](\A s \in Servers : \A k \in BindPoints(s) :
         (httpServers[s][k].early \/ httpServers[s][k].inShutdown) =>
           httpServers[s][k].listener # "accepting")
  /\ \A s \in Servers :
       (startTask[s].launched > 0 /\ shutdownTask[s].signalled > 0)
         ~> (startTask[s].at = "returned")

\* C29 witness: Shutdown was called on the first server's last http.Server
\* before Start got to it; Start then listened, did not accept, and
\* returned nil.
C29_Witness ==
  /\ httpServers[1][MaxBindPoints].early
  /\ httpServers[1][MaxBindPoints].listener = "closed"
  /\ httpServers[1][MaxBindPoints].outcome = "ErrServerClosed"
  /\ startTask[1].at = "returned" /\ startTask[1].err = "nil"

\* C30: Start has returned nil only if the serve loop of every bind point
\* has ended with http.ErrServerClosed; a listener that could not be
\* acquired or a serve loop that ended otherwise has made Start return an
\* error, and Start returns an error for no other reason.
C30_StartReturnsNilOnlyWhenAllClosed ==
  \A s \in Servers :
    LET failed == {k \in BindPoints(s) :
                     \/ httpServers[s][k].listener = "failed"
                     \/ httpServers[s][k].outcome = "other"}
    IN  /\ (startTask[s].at = "returned" /\ startTask[s].err = "nil") =>
             \A k \in BindPoints(s) : httpServers[s][k].outcome = "ErrServerClosed"
        /\ failed # {} => (startTask[s].at = "returned" /\ startTask[s].err # "nil")
        /\ startTask[s].err # "nil" => failed # {}

\* C30 witness: the first serve loop of the first server ended with
\* http.ErrServerClosed, the second with another error, and Start returned
\* that error.
C30_Witness ==
  /\ httpServers[1][1].outcome = "ErrServerClosed"
  /\ httpServers[1][2].outcome = "other"
  /\ startTask[1].at = "returned" /\ startTask[1].err = "serve"

\* A request has gone through the wrapped handler of the http.Server.
Wrapped == pc = "built" /\ exchange.entered # <<>>

\* C18: a panic of the handler that serves a request never leaves the wrapped
\* handler, and a request that follows one whose handler panicked is
\* dispatched as the dispatcher alone would dispatch it.
C18_PanicIsContained ==
  Wrapped =>
    /\ exchange.panic = Nil
    /\ (exchange.afterPanic /\ ~exchange.fault) =>
         LET r == DemuxHandlerImpl_ServeHTTP(dispatcher, request)
         IN  /\ served = r.served
             /\ ctxHandler = r.ctxHandler
             /\ response = r.response

\* C18 witness: no hook is set; the handler of an earlier request panicked,
\* and this request to /a/x was served by the handler with 200.
C18_Witness ==
  /\ Wrapped /\ OnHandlerPanic = Nil
  /\ exchange.afterPanic /\ ~exchange.fault
  /\ exchange.panic = Nil
  /\ request = ReqAX
  /\ Len(handlers) = 1
  /\ served = <<[kind |-> "ApiHandler", id |-> 1]>>
  /\ response = [status |-> 200, body |-> BindingName(1)]

\* The values of the response header entries with a name.
HeaderValues(name) == {e[2] : e \in {f \in exchange.header : f[1] = name}}

\* C19: on a bind point with a replacement address every response carries
\* the header ziti-ctrl-address with "https://" followed by that address,
\* whatever served the request; on a bind point without one the header is
\* never set.
C19_CtrlAddressHeader ==
  Wrapped =>
    HeaderValues(ZitiCtrlAddressHeader) =
      IF bindPoint.NewAddress # <<>>
      THEN {<<"https://">> \o bindPoint.NewAddress}
      ELSE {}

\* C19 witness: the bind point's replacement address is new.host:1280, the
\* handler answered 200, and the header is https://new.host:1280.
C19_Witness ==
  /\ Wrapped
  /\ bindPoint.NewAddress = <<"new.host", ":", "1280">>
  /\ response.status = 200
  /\ exchange.header =
       {<<"ziti-ctrl-address", <<"https://", "new.host", ":", "1280">>>>}

\* C26: every request enters compression first, panic recovery second,
\* header injection third and the dispatcher last; the dispatcher finds the
\* replacement-address header already set, and a panic under the recovery
\* wrapper does not leave it.
C26_WrapOrder ==
  Wrapped =>
    /\ exchange.entered = <<"CompressionHandler", "wrapPanicRecovery",
                            "wrapSetCtrlAddressHeader", "demuxHandler">>
    /\ exchange.headerSeen = exchange.header
    /\ bindPoint.NewAddress # <<>> =>
         <<ZitiCtrlAddressHeader, <<"https://">> \o bindPoint.NewAddress>>
           \in exchange.headerSeen
    /\ exchange.panic = Nil

\* C26 witness: on a bind point with a replacement address the handler
\* panicked; it had found the header set, and the panic was recovered.
C26_Witness ==
  /\ Wrapped /\ exchange.fault
  /\ bindPoint.NewAddress # <<>>
  /\ exchange.headerSeen # {}
  /\ exchange.entered[4] = "demuxHandler"
  /\ exchange.panic = Nil

\* C27: with the OnHandlerPanic hook set a handler panic calls the hook
\* once, with the writer, the request and the panic value, and logs
\* nothing; with the hook unset the panic is logged; either way the panic
\* ends in the wrapper; without a panic neither happens.
C27_HookOverridesLog ==
  Wrapped =>
    /\ exchange.panic = Nil
    /\ exchange.hook =
         IF exchange.fault /\ OnHandlerPanic # Nil
         THEN <<[writer |-> [header |-> exchange.header, response |-> response],
                 request |-> request, panicVal |-> PanicVal]>>
         ELSE <<>>
    /\ exchange.logged = (exchange.fault /\ OnHandlerPanic = Nil)

\* C27 witness: the hook is set, the handler of a request to /a/x panicked,
\* the hook was called once and nothing was logged.
C27_Witness ==
  /\ Wrapped /\ OnHandlerPanic = Hook
  /\ exchange.fault /\ request = ReqAX
  /\ Len(exchange.hook) = 1
  /\ exchange.hook[1].panicVal = PanicVal
  /\ ~exchange.logged

\* C20 as stated: when the dispatcher routes a request to a handler,
\* HandlerFromRequestContext on the context of the request the handler
\* receives returns that handler, not nil.
C20_AsStated ==
  (Dispatched /\ served # <<>> /\ served[1].kind = "ApiHandler") =>
    /\ HandlerFromRequestContext(ctxHandler) # Nil
    /\ HandlerFromRequestContext(ctxHandler) = handlers[served[1].id]

====
